---- MODULE Spec2Model ----
(***************************************************************************)
(* Subscription and billing lifecycle of the HR backend: the subscription  *)
(* routes (register, current, create-order, verify-payment, change-plan,   *)
(* cancel, reactivate, webhook), the Razorpay signature helpers and the    *)
(* checkSubscription middleware.  One tenant; time is counted in days.     *)
(***************************************************************************)
EXTENDS Integers, Sequences, FiniteSets, TLC

VARIABLES now, sub, payments, invoices, gwOrders, hist, last, pc, loc

vars == <<now, sub, payments, invoices, gwOrders, hist, last, pc, loc>>

db == <<sub, payments, invoices>>

(* ------------------------------ bounds --------------------------------- *)
MaxNow == 34
MaxOrders == 2
MaxPayIds == 2
MaxVerifies == 2
MaxDeliveries == 2
MaxProcs == 2

(* ------------------------- program constants --------------------------- *)
\* subscription.ts:92  gracePeriod = 3 days
GracePeriod == 3
\* verify-payment: periodEnd = now + 30 days / now + 365 days
MonthlyPeriod == 30
YearlyPeriod == 365
\* invoice.create: 18% GST
GstPercent == 18
\* plan.maxEmployees === -1 means unlimited
Unlimited == -1

(* ------------------------------ values --------------------------------- *)
\* a nullable DateTime column holding null
NoTime == -1
\* a nullable id / absent request field
NoId == 0
NoPlan == "none"
NoCycle == "none"
NoReason == "none"
NoSig == <<>>
NoSub == [status |-> "NONE"]
NoPayment == [status |-> "NONE"]
NoMeta == [pendingPlanChange |-> NoPlan, changeEffectiveDate |-> NoTime]

Orders == 1..MaxOrders
PayIds == 1..MaxPayIds
Procs == 1..MaxProcs

Statuses == {"TRIAL", "ACTIVE", "PAST_DUE", "SUSPENDED", "EXPIRED", "CANCELLED"}
PaymentStatuses == {"CREATED", "CAPTURED", "FAILED", "REFUNDED"}
Cycles == {"MONTHLY", "YEARLY"}
DefaultReason == "User requested cancellation"

(* --------------------------- plan catalog ------------------------------ *)
\* the seeded subscription plans
PlanIds == {"starter", "professional", "enterprise"}

Plans ==
  [p \in PlanIds |->
     CASE p = "starter" ->
            [monthlyPrice |-> 499, yearlyPrice |-> 4990, maxEmployees |-> 25,
             trialDays |-> 14, isCustom |-> FALSE, isActive |-> TRUE]
       [] p = "professional" ->
            [monthlyPrice |-> 1499, yearlyPrice |-> 14990, maxEmployees |-> 200,
             trialDays |-> 14, isCustom |-> FALSE, isActive |-> TRUE]
       [] OTHER ->
            [monthlyPrice |-> 0, yearlyPrice |-> 0, maxEmployees |-> Unlimited,
             trialDays |-> 30, isCustom |-> TRUE, isActive |-> TRUE]]

(* ------------------------- razorpay helpers ---------------------------- *)
KeySecret == "RAZORPAY_KEY_SECRET"
WebhookSecret == "RAZORPAY_WEBHOOK_SECRET"
AttackerSecret == "not the secret"

\* crypto.createHmac('sha256', secret).update(msg).digest('hex'): a keyed
\* digest, collision-free on the messages of the model
Hmac(secret, msg) == <<secret, msg>>

\* a check that lets every signature through
VerifyRazorpaySignatureAlways(orderId, paymentId, signature) == TRUE

VerifyRazorpaySignature(orderId, paymentId, signature) ==
  Hmac(KeySecret, <<orderId, paymentId>>) = signature

VerifyWebhookSignature(body, signature) ==
  Hmac(WebhookSecret, body) = signature

\* express.json() then JSON.stringify(req.body): the compact serialisation of
\* the parsed event, whatever the spacing of the bytes received
Stringify(raw) == [raw EXCEPT !.spacing = "compact"]

(* ------------------------------ helpers -------------------------------- *)
CycleLength(billingCycle) ==
  IF billingCycle = "YEARLY" THEN YearlyPeriod ELSE MonthlyPeriod

\* Math.round(x / 100) for x >= 0
RoundDiv100(x) == (x + 50) \div 100

Min(a, b) == IF a < b THEN a ELSE b

\* a registration that gives every plan Starter's trial
NewSubscriptionStarterTrial(planId, t) ==
  [status |-> "TRIAL", planId |-> planId,
   trialEndDate |-> t + Plans["starter"].trialDays,
   currentPeriodStart |-> NoTime, currentPeriodEnd |-> NoTime,
   billingCycle |-> "MONTHLY", autoRenew |-> TRUE,
   cancelledAt |-> NoTime, cancelReason |-> NoReason,
   cancelsAtPeriodEnd |-> FALSE, metadata |-> NoMeta]

(* ------------------------------- rows ---------------------------------- *)
\* tx.subscription.create in /register; the other columns take their defaults
NewSubscription(planId, t) ==
  [status |-> "TRIAL", planId |-> planId,
   trialEndDate |-> t + Plans[planId].trialDays,
   currentPeriodStart |-> NoTime, currentPeriodEnd |-> NoTime,
   billingCycle |-> "MONTHLY", autoRenew |-> TRUE,
   cancelledAt |-> NoTime, cancelReason |-> NoReason,
   cancelsAtPeriodEnd |-> FALSE, metadata |-> NoMeta]

\* prisma.payment.create in /create-order; amount is kept in paise
NewPayment(amount, planId, billingCycle) ==
  [status |-> "CREATED", amount |-> amount, razorpayPaymentId |-> NoId,
   paidAt |-> NoTime, refundedAt |-> NoTime, errorCode |-> FALSE,
   description |-> <<planId, billingCycle>>]

\* an order always priced by the month
OrderAmountMonthly(planId, billingCycle) ==
  Plans[planId].monthlyPrice * 100

\* amount in paise: Math.round(price * 100)
OrderAmount(planId, billingCycle) ==
  IF billingCycle = "YEARLY" /\ Plans[planId].yearlyPrice # 0
    THEN Plans[planId].yearlyPrice * 100
    ELSE Plans[planId].monthlyPrice * 100

\* an invoice whose total leaves the tax out
NewInvoiceNetTotal(order, amount, periodStart, periodEnd) ==
  [order |-> order, subtotal |-> amount,
   tax |-> RoundDiv100(amount * GstPercent),
   total |-> amount,
   periodStart |-> periodStart, periodEnd |-> periodEnd, status |-> "PAID",
   paidAt |-> periodStart]

\* prisma.invoice.create in /verify-payment; order is the payment on whose
\* behalf the row is written (the row itself only has subscriptionId)
NewInvoice(order, amount, periodStart, periodEnd) ==
  [order |-> order, subtotal |-> amount,
   tax |-> RoundDiv100(amount * GstPercent),
   total |-> RoundDiv100(amount * (100 + GstPercent)),
   periodStart |-> periodStart, periodEnd |-> periodEnd, status |-> "PAID",
   paidAt |-> periodStart]

\* razorpayPaymentId is a unique column (it is a findUnique key in the webhook)
PaymentIdTaken(pays, o, pid) ==
  \E q \in Orders \ {o} : pays[q] # NoPayment /\ pays[q].razorpayPaymentId = pid

\* prisma.payment.update of /verify-payment
CapturePayment(pays, o, pid, t) ==
  [pays EXCEPT ![o] = [@ EXCEPT !.status = "CAPTURED",
                                !.razorpayPaymentId = pid, !.paidAt = t]]

\* an activation that leaves the period as it was
ActivateSubscriptionStatusOnly(s, planId, billingCycle, t) ==
  [s EXCEPT !.status = "ACTIVE", !.planId = planId,
            !.billingCycle = billingCycle, !.trialEndDate = t]

\* an update that always grants a monthly period
ActivateSubscriptionMonthly(s, planId, billingCycle, t) ==
  [s EXCEPT !.status = "ACTIVE", !.planId = planId,
            !.currentPeriodStart = t,
            !.currentPeriodEnd = t + MonthlyPeriod,
            !.billingCycle = billingCycle, !.trialEndDate = t]

\* prisma.subscription.update of /verify-payment
ActivateSubscription(s, planId, billingCycle, t) ==
  [s EXCEPT !.status = "ACTIVE", !.planId = planId,
            !.currentPeriodStart = t,
            !.currentPeriodEnd = t + CycleLength(billingCycle),
            !.billingCycle = billingCycle, !.trialEndDate = t]

(* ---------------------------- request log ------------------------------ *)
\* the request whose answer is on its way: what was asked, what the handler
\* read and what it answers (NoLog: no answer pending)
NoLog ==
  [op |-> "none", code |-> 0, valid |-> TRUE, order |-> NoId, from |-> "NONE",
   was |-> "NONE", at |-> NoTime, ninv |-> 0, cycle |-> NoCycle,
   planId |-> NoPlan, tag |-> "none", flag |-> FALSE]

Log(op, code) == [NoLog EXCEPT !.op = op, !.code = code, !.at = now]

\* what happened for an order: verify-payment calls that found its row,
\* payment.captured deliveries that found it, any other event that found it,
\* and subscription.update calls made on its behalf
NoHist == [verify |-> 0, captured |-> 0, other |-> FALSE, activations |-> 0]

Idle == [op |-> "idle"]

(* -------------------------------- Init --------------------------------- *)
Init ==
  /\ now = 0
  /\ sub = NoSub
  /\ payments = [o \in Orders |-> NoPayment]
  /\ invoices = <<>>
  /\ gwOrders = {}
  /\ hist = [o \in Orders |-> NoHist]
  /\ last = NoLog
  /\ pc = [p \in Procs |-> "idle"]
  /\ loc = [p \in Procs |-> Idle]

(* ------------------------------- clock --------------------------------- *)
\* the deadlines the handlers compare new Date() with: the end of the trial,
\* the end of the billing period, the end of the grace period
Deadlines ==
  IF sub = NoSub THEN {}
  ELSE (IF sub.status = "TRIAL" THEN {sub.trialEndDate} ELSE {})
       \cup (IF sub.currentPeriodEnd = NoTime THEN {}
             ELSE {sub.currentPeriodEnd, sub.currentPeriodEnd + GracePeriod})

\* new Date() moves on to t
Tick(t) ==
  /\ last = NoLog
  /\ t > now
  /\ t <= MaxNow
  /\ now' = t
  /\ UNCHANGED <<sub, payments, invoices, gwOrders, hist, last, pc, loc>>

(* ------------------------------ /register ------------------------------ *)
\* one tenant registers once; planSlug || 'starter'
Register(planSlug) ==
  LET slug == IF planSlug = NoPlan THEN "starter" ELSE planSlug
  IN  /\ last = NoLog
      /\ sub = NoSub
      /\ sub' = NewSubscription(slug, now)
      /\ last' = [Log("register", 201) EXCEPT !.planId = slug]
      /\ UNCHANGED <<now, payments, invoices, gwOrders, hist, pc, loc>>

(* -------------------------- checkSubscription -------------------------- *)
\* a guard whose deadlines already count as passed when the clock is on them
CheckDecisionInclusive(s, t) ==
  CASE s = NoSub ->
         [write |-> "NONE", code |-> 403, tag |-> "NO_SUBSCRIPTION"]
    [] s.status = "TRIAL" ->
         IF s.trialEndDate # NoTime /\ t >= s.trialEndDate
           THEN [write |-> "EXPIRED", code |-> 403, tag |-> "TRIAL_EXPIRED"]
           ELSE [write |-> "NONE", code |-> 200, tag |-> "next"]
    [] s.status = "ACTIVE" ->
         IF s.currentPeriodEnd # NoTime /\ t >= s.currentPeriodEnd
           THEN [write |-> "PAST_DUE", code |-> 403,
                 tag |-> "SUBSCRIPTION_PAST_DUE"]
           ELSE [write |-> "NONE", code |-> 200, tag |-> "next"]
    [] s.status \in {"EXPIRED", "CANCELLED", "SUSPENDED"} ->
         [write |-> "NONE", code |-> 403, tag |-> "SUBSCRIPTION_INACTIVE"]
    [] s.status = "PAST_DUE" ->
         IF s.currentPeriodEnd # NoTime
            /\ t >= s.currentPeriodEnd + GracePeriod
           THEN [write |-> "SUSPENDED", code |-> 403,
                 tag |-> "SUBSCRIPTION_SUSPENDED"]
           ELSE [write |-> "NONE", code |-> 200, tag |-> "next"]
    [] OTHER -> [write |-> "NONE", code |-> 200, tag |-> "next"]

\* what checkSubscription decides from the row it read at time t: the status
\* it writes ("NONE": no write), the HTTP code (200: next()) and the code tag
CheckDecision(s, t) ==
  CASE s = NoSub ->
         [write |-> "NONE", code |-> 403, tag |-> "NO_SUBSCRIPTION"]
    [] s.status = "TRIAL" ->
         IF s.trialEndDate # NoTime /\ t > s.trialEndDate
           THEN [write |-> "EXPIRED", code |-> 403, tag |-> "TRIAL_EXPIRED"]
           ELSE [write |-> "NONE", code |-> 200, tag |-> "next"]
    [] s.status = "ACTIVE" ->
         IF s.currentPeriodEnd # NoTime /\ t > s.currentPeriodEnd
           THEN [write |-> "PAST_DUE", code |-> 403,
                 tag |-> "SUBSCRIPTION_PAST_DUE"]
           ELSE [write |-> "NONE", code |-> 200, tag |-> "next"]
    [] s.status \in {"EXPIRED", "CANCELLED", "SUSPENDED"} ->
         [write |-> "NONE", code |-> 403, tag |-> "SUBSCRIPTION_INACTIVE"]
    [] s.status = "PAST_DUE" ->
         IF s.currentPeriodEnd # NoTime
            /\ t > s.currentPeriodEnd + GracePeriod
           THEN [write |-> "SUSPENDED", code |-> 403,
                 tag |-> "SUBSCRIPTION_SUSPENDED"]
           ELSE [write |-> "NONE", code |-> 200, tag |-> "next"]
    [] OTHER -> [write |-> "NONE", code |-> 200, tag |-> "next"]

\* a repair that also closes the billing period
RepairStatusAndPeriod(s, d) ==
  IF d.write = "NONE" THEN s
  ELSE [s EXCEPT !.status = d.write, !.currentPeriodEnd = NoTime]

\* prisma.subscription.update({ data: { status } }) of checkSubscription
RepairStatus(s, d) ==
  IF d.write = "NONE" THEN s ELSE [s EXCEPT !.status = d.write]

CheckLog(s, d) ==
  [Log("guard", d.code) EXCEPT !.tag = d.tag, !.from = s.status]

CheckSubscription ==
  LET d == CheckDecision(sub, now)
  IN  /\ last = NoLog
      /\ sub' = RepairStatus(sub, d)
      /\ last' = CheckLog(sub, d)
      /\ UNCHANGED <<now, payments, invoices, gwOrders, hist, pc, loc>>

(* ------------------------------ /current ------------------------------- *)
GetCurrent ==
  /\ last = NoLog
  /\ last' = [Log("current", IF sub = NoSub THEN 404 ELSE 200)
                EXCEPT !.from = sub.status, !.tag = sub.status]
  /\ UNCHANGED <<now, sub, payments, invoices, gwOrders, hist, pc, loc>>

(* ---------------------------- /create-order ---------------------------- *)
\* the id of the order the gateway creates next: ids are never reused
NextOrderId == Cardinality(gwOrders) + 1

CreateOrder(planId, billingCycle, gatewayOk) ==
  LET cycle == IF billingCycle = NoCycle THEN "MONTHLY" ELSE billingCycle
      rec(code, tag) == [Log("create-order", code) EXCEPT !.tag = tag]
  IN
  /\ last = NoLog
  /\ UNCHANGED <<now, sub, invoices, hist, pc, loc>>
  /\ IF planId = NoPlan
       THEN /\ last' = rec(400, "Plan ID is required")
            /\ UNCHANGED <<payments, gwOrders>>
     ELSE IF Plans[planId].isCustom
       THEN /\ last' = rec(400, "Enterprise plan requires contacting sales")
            /\ UNCHANGED <<payments, gwOrders>>
     ELSE IF ~gatewayOk
       THEN /\ last' = rec(500, "Failed to create payment order")
            /\ UNCHANGED <<payments, gwOrders>>
     ELSE \E o \in {NextOrderId} \cap Orders :
            /\ gwOrders' = gwOrders \cup {o}
            /\ IF sub = NoSub
                 THEN /\ last' = rec(404, "No subscription found")
                      /\ UNCHANGED payments
                 ELSE /\ payments' =
                           [payments EXCEPT ![o] =
                              NewPayment(OrderAmount(planId, cycle),
                                         planId, cycle)]
                      /\ last' = [rec(200, "ok") EXCEPT
                                    !.order = o, !.planId = planId,
                                    !.cycle = cycle]

(* --------------------------- /verify-payment --------------------------- *)
\* the signatures a caller can send for (orderId, paymentId): the gateway's,
\* a forged one, the gateway's for another order or payment, or none
VerifySignatures(orderId, paymentId) ==
  {Hmac(KeySecret, <<orderId, paymentId>>),
   Hmac(AttackerSecret, <<orderId, paymentId>>), NoSig}
  \cup {Hmac(KeySecret, <<o, q>>) : o \in Orders, q \in PayIds}

\* the gateway signed this very (orderId, paymentId)
Genuine(orderId, paymentId, signature) ==
  /\ orderId # NoId
  /\ paymentId # NoId
  /\ signature = Hmac(KeySecret, <<orderId, paymentId>>)

\* the request as the handler holds it after payment.findUnique and
\* new Date(): targetPlanId, the period and the amount of the row read
VerifyRequest(orderId, paymentId, planId, billingCycle, t) ==
  [op |-> "verify", order |-> orderId, pid |-> paymentId,
   planId |-> IF planId = NoPlan THEN sub.planId ELSE planId,
   cycle |-> IF billingCycle = NoCycle THEN "MONTHLY" ELSE billingCycle,
   amount |-> payments[orderId].amount, t |-> t,
   from |-> sub.status, was |-> payments[orderId].status,
   ninv |-> Len(invoices)]

\* the writes of the handler in program order: payment.update,
\* subscription.update, invoice.create, auditLog.create; a write that throws
\* ends the handler with 500 and leaves the earlier writes in place
VerifyWrites == 4

\* payment.update throws on the unique razorpayPaymentId
VerifyWriteThrows(r) == PaymentIdTaken(payments, r.order, r.pid)

\* a handler that writes no invoice
SkipInvoice(invs, r) == invs

\* prisma.invoice.create for the request r
CreateInvoice(invs, r) ==
  Append(invs, NewInvoice(r.order, r.amount, r.t, r.t + CycleLength(r.cycle)))

\* the tables after the first n writes of the handler
VerifyPaymentsAfter(r, n) ==
  IF n >= 1 THEN CapturePayment(payments, r.order, r.pid, r.t) ELSE payments

VerifySubAfter(r, n) ==
  IF n >= 2 THEN ActivateSubscription(sub, r.planId, r.cycle, r.t) ELSE sub

VerifyInvoicesAfter(r, n) ==
  IF n >= 3 THEN CreateInvoice(invoices, r) ELSE invoices

VerifyHistAfter(r, n) ==
  [hist EXCEPT ![r.order].verify = @ + 1,
               ![r.order].activations = IF n >= 2 THEN @ + 1 ELSE @]

VerifyLog(r, code) ==
  [Log("verify", code) EXCEPT !.order = r.order, !.from = r.from,
     !.was = r.was, !.at = r.t, !.ninv = r.ninv, !.cycle = r.cycle,
     !.planId = r.planId]

VerifyReject(code, valid) == [Log("verify", code) EXCEPT !.valid = valid]

\* verify-payment calls that found a Payment row so far
RECURSIVE VerifiesUpTo(_)
VerifiesUpTo(o) == IF o = 0 THEN 0 ELSE hist[o].verify + VerifiesUpTo(o - 1)

Verifies == VerifiesUpTo(MaxOrders)

\* done: how many of the handler's writes the database commits before one
\* fails (VerifyWrites: none fails)
VerifyPayment(orderId, paymentId, signature, planId, billingCycle, done) ==
  LET genuine == Genuine(orderId, paymentId, signature)
  IN
  /\ last = NoLog
  /\ UNCHANGED <<now, gwOrders, pc, loc>>
  /\ IF orderId = NoId \/ paymentId = NoId \/ signature = NoSig
       THEN /\ last' = VerifyReject(400, genuine)
            /\ UNCHANGED <<sub, payments, invoices, hist>>
     ELSE IF ~VerifyRazorpaySignature(orderId, paymentId, signature)
       THEN /\ last' = VerifyReject(400, genuine)
            /\ UNCHANGED <<sub, payments, invoices, hist>>
     ELSE IF payments[orderId] = NoPayment
       THEN /\ last' = VerifyReject(404, genuine)
            /\ UNCHANGED <<sub, payments, invoices, hist>>
     ELSE LET r == VerifyRequest(orderId, paymentId, planId, billingCycle, now)
              n == IF VerifyWriteThrows(r) THEN 0 ELSE done
          IN  /\ Verifies < MaxVerifies
              /\ payments' = VerifyPaymentsAfter(r, n)
              /\ sub' = VerifySubAfter(r, n)
              /\ invoices' = VerifyInvoicesAfter(r, n)
              /\ hist' = VerifyHistAfter(r, n)
              /\ last' = [VerifyLog(r, IF n = VerifyWrites THEN 200 ELSE 500)
                            EXCEPT !.valid = genuine]

(* ------------------------------ /webhook ------------------------------- *)
Events == {"payment.captured", "payment.failed", "refund.created", "order.paid"}

\* the bytes received: the event, its entity's order id and payment id, and
\* the spacing of the JSON text
Bodies ==
  [event : Events, order_id : Orders, id : PayIds,
   spacing : {"compact", "spaced"}]

\* the x-razorpay-signature headers a sender can attach to raw: the gateway's
\* (over the bytes sent), a forged one, or none
WebhookSignatures(raw) ==
  {Hmac(WebhookSecret, raw), Hmac(AttackerSecret, raw), NoSig}

\* if (signature && !verifyWebhookSignature(body, signature)) return 400,
\* with body = JSON.stringify(req.body)
WebhookAccepts(raw, signature) ==
  signature = NoSig \/ VerifyWebhookSignature(Stringify(raw), signature)

\* prisma.payment.findUnique of the event: by razorpayOrderId for payment
\* events, by razorpayPaymentId for refund.created; NoId: no row
WebhookFind(pays, ev) ==
  IF ev.event \in {"payment.captured", "payment.failed"}
    THEN IF pays[ev.order_id] # NoPayment THEN ev.order_id ELSE NoId
  ELSE IF ev.event = "refund.created"
    THEN IF \E o \in Orders : pays[o] # NoPayment
                                /\ pays[o].razorpayPaymentId = ev.id
           THEN CHOOSE o \in Orders : pays[o] # NoPayment
                                       /\ pays[o].razorpayPaymentId = ev.id
           ELSE NoId
  ELSE NoId

\* whether the event's case updates the row o it found, whose status it read
\* as `was`
WebhookUpdates(ev, o, was) ==
  /\ o # NoId
  /\ \/ ev.event = "payment.captured" /\ was # "CAPTURED"
     \/ ev.event = "payment.failed"
     \/ ev.event = "refund.created"

\* prisma.payment.update of the event's case
WebhookUpdate(pays, ev, o, t) ==
  CASE ev.event = "payment.captured" ->
         [pays EXCEPT ![o] = [@ EXCEPT !.status = "CAPTURED",
                                       !.razorpayPaymentId = ev.id,
                                       !.paidAt = t]]
    [] ev.event = "payment.failed" ->
         [pays EXCEPT ![o] = [@ EXCEPT !.status = "FAILED",
                                       !.razorpayPaymentId = ev.id,
                                       !.errorCode = TRUE]]
    [] ev.event = "refund.created" ->
         [pays EXCEPT ![o] = [@ EXCEPT !.status = "REFUNDED",
                                       !.refundedAt = t]]
    [] OTHER -> pays

\* the update throws on the unique razorpayPaymentId
WebhookUpdateThrows(pays, ev, o) ==
  ev.event \in {"payment.captured", "payment.failed"}
  /\ PaymentIdTaken(pays, o, ev.id)

\* the deliveries recorded for the order whose row a processed event found
WebhookHist(h, ev, o) ==
  IF o = NoId THEN h
  ELSE IF ev.event = "payment.captured"
    THEN [h EXCEPT ![o].captured = Min(@ + 1, MaxDeliveries)]
  ELSE [h EXCEPT ![o].other = TRUE]

WebhookLog(raw, signature, code, o, was) ==
  [Log("webhook", code) EXCEPT
     !.valid = (signature = Hmac(WebhookSecret, raw)),
     !.order = o, !.was = was, !.tag = raw.event]

\* dbOk: the update, when the handler makes one, is committed
Webhook(raw, signature, dbOk) ==
  LET ev == Stringify(raw)
      o == WebhookFind(payments, ev)
      was == IF o = NoId THEN "NONE" ELSE payments[o].status
  IN
  /\ last = NoLog
  /\ UNCHANGED <<now, sub, invoices, gwOrders, pc, loc>>
  /\ IF ~WebhookAccepts(raw, signature)
       THEN /\ last' = WebhookLog(raw, signature, 400, NoId, "NONE")
            /\ UNCHANGED <<payments, hist>>
       ELSE /\ last' = WebhookLog(raw, signature, 200, o, was)
            /\ hist' = WebhookHist(hist, ev, o)
            /\ payments' =
                 IF WebhookUpdates(ev, o, was) /\ dbOk
                    /\ ~WebhookUpdateThrows(payments, ev, o)
                   THEN WebhookUpdate(payments, ev, o, now)
                   ELSE payments

(* ---------------------------- /change-plan ----------------------------- *)
\* a handler that also refuses a tenant exactly at the ceiling
ChangePlanAtCeiling(planId, employeeCount) ==
  LET rec(code, tag) == [Log("change-plan", code)
                           EXCEPT !.tag = tag, !.planId = planId,
                                  !.from = sub.status]
  IN
  /\ last = NoLog
  /\ UNCHANGED <<now, payments, invoices, gwOrders, hist, pc, loc>>
  /\ IF planId = NoPlan
       THEN last' = rec(400, "Plan ID is required") /\ UNCHANGED sub
     ELSE IF ~Plans[planId].isActive
       THEN last' = rec(404, "Plan not found or inactive") /\ UNCHANGED sub
     ELSE IF sub = NoSub
       THEN last' = rec(404, "No subscription found") /\ UNCHANGED sub
     ELSE IF Plans[planId].maxEmployees # Unlimited
             /\ employeeCount >= Plans[planId].maxEmployees
       THEN last' = rec(400, "Cannot downgrade") /\ UNCHANGED sub
     ELSE IF sub.status = "TRIAL"
       THEN /\ sub' = [sub EXCEPT !.planId = planId]
            /\ last' = rec(200, "applied")
     ELSE IF Plans[planId].monthlyPrice > Plans[sub.planId].monthlyPrice
       THEN last' = rec(200, "requiresPayment") /\ UNCHANGED sub
     ELSE /\ sub' = [sub EXCEPT !.metadata =
                       [pendingPlanChange |-> planId,
                        changeEffectiveDate |-> sub.currentPeriodEnd]]
          /\ last' = rec(200, "scheduled")

\* employeeCount: what prisma.user.count answers for the tenant
ChangePlan(planId, employeeCount) ==
  LET rec(code, tag) == [Log("change-plan", code)
                           EXCEPT !.tag = tag, !.planId = planId,
                                  !.from = sub.status]
  IN
  /\ last = NoLog
  /\ UNCHANGED <<now, payments, invoices, gwOrders, hist, pc, loc>>
  /\ IF planId = NoPlan
       THEN last' = rec(400, "Plan ID is required") /\ UNCHANGED sub
     ELSE IF ~Plans[planId].isActive
       THEN last' = rec(404, "Plan not found or inactive") /\ UNCHANGED sub
     ELSE IF sub = NoSub
       THEN last' = rec(404, "No subscription found") /\ UNCHANGED sub
     ELSE IF Plans[planId].maxEmployees # Unlimited
             /\ employeeCount > Plans[planId].maxEmployees
       THEN last' = rec(400, "Cannot downgrade") /\ UNCHANGED sub
     ELSE IF sub.status = "TRIAL"
       THEN /\ sub' = [sub EXCEPT !.planId = planId]
            /\ last' = rec(200, "applied")
     ELSE IF Plans[planId].monthlyPrice > Plans[sub.planId].monthlyPrice
       THEN last' = rec(200, "requiresPayment") /\ UNCHANGED sub
     ELSE /\ sub' = [sub EXCEPT !.metadata =
                       [pendingPlanChange |-> planId,
                        changeEffectiveDate |-> sub.currentPeriodEnd]]
          /\ last' = rec(200, "scheduled")

(* ------------------------------- /cancel ------------------------------- *)
\* a cancellation at once that leaves the renewal switched on
CancelUpdateKeepsRenewal(cur, s, reason, immediate, t) ==
  LET why == IF reason = NoReason THEN DefaultReason ELSE reason
  IN  IF immediate \/ s.status = "TRIAL"
        THEN [cur EXCEPT !.status = "CANCELLED", !.cancelledAt = t,
                         !.cancelReason = why]
        ELSE [cur EXCEPT !.cancelsAtPeriodEnd = TRUE, !.cancelledAt = t,
                         !.cancelReason = why, !.autoRenew = FALSE]

\* a cancellation that never waits for the period end
CancelUpdateAtOnce(cur, s, reason, immediate, t) ==
  LET why == IF reason = NoReason THEN DefaultReason ELSE reason
  IN  [cur EXCEPT !.status = "CANCELLED", !.cancelledAt = t,
                  !.cancelReason = why, !.autoRenew = FALSE]

\* the subscription.update of /cancel, decided from the row s the handler
\* read and applied to the row cur
CancelUpdate(cur, s, reason, immediate, t) ==
  LET why == IF reason = NoReason THEN DefaultReason ELSE reason
  IN  IF immediate \/ s.status = "TRIAL"
        THEN [cur EXCEPT !.status = "CANCELLED", !.cancelledAt = t,
                         !.cancelReason = why, !.autoRenew = FALSE]
        ELSE [cur EXCEPT !.cancelsAtPeriodEnd = TRUE, !.cancelledAt = t,
                         !.cancelReason = why, !.autoRenew = FALSE]

\* a handler that cancels whatever the status is
CancelRejectsMissing(s) == s = NoSub

CancelRejects(s) == s = NoSub \/ s.status \in {"CANCELLED", "EXPIRED"}

CancelLog(s, immediate, code) ==
  [Log("cancel", code) EXCEPT
     !.from = s.status,
     !.tag = IF code # 200 THEN "rejected"
             ELSE IF immediate THEN "CANCELLED" ELSE s.status,
     !.flag = (code = 200 /\ ~immediate)]

Cancel(reason, immediate) ==
  /\ last = NoLog
  /\ UNCHANGED <<now, payments, invoices, gwOrders, hist, pc, loc>>
  /\ IF CancelRejects(sub)
       THEN /\ last' = CancelLog(sub, immediate,
                                 IF sub = NoSub THEN 404 ELSE 400)
            /\ UNCHANGED sub
       ELSE /\ sub' = CancelUpdate(sub, sub, reason, immediate, now)
            /\ last' = CancelLog(sub, immediate, 200)

(* ----------------------------- /reactivate ----------------------------- *)
\* a handler that still reactivates at the instant the period ends
ReactivateAtPeriodEnd ==
  /\ last = NoLog
  /\ UNCHANGED <<now, payments, invoices, gwOrders, hist, pc, loc>>
  /\ IF sub = NoSub
       THEN last' = Log("reactivate", 404) /\ UNCHANGED sub
     ELSE IF sub.cancelsAtPeriodEnd /\ sub.currentPeriodEnd # NoTime
             /\ now <= sub.currentPeriodEnd
       THEN /\ sub' = [sub EXCEPT !.cancelsAtPeriodEnd = FALSE,
                                  !.cancelledAt = NoTime,
                                  !.cancelReason = NoReason,
                                  !.autoRenew = TRUE]
            /\ last' = [Log("reactivate", 200) EXCEPT !.tag = "success",
                                                       !.from = sub.status]
     ELSE /\ last' = [Log("reactivate", 200) EXCEPT !.tag = "requiresPayment",
                                                     !.from = sub.status]
          /\ UNCHANGED sub

Reactivate ==
  /\ last = NoLog
  /\ UNCHANGED <<now, payments, invoices, gwOrders, hist, pc, loc>>
  /\ IF sub = NoSub
       THEN last' = Log("reactivate", 404) /\ UNCHANGED sub
     ELSE IF sub.cancelsAtPeriodEnd /\ sub.currentPeriodEnd # NoTime
             /\ now < sub.currentPeriodEnd
       THEN /\ sub' = [sub EXCEPT !.cancelsAtPeriodEnd = FALSE,
                                  !.cancelledAt = NoTime,
                                  !.cancelReason = NoReason,
                                  !.autoRenew = TRUE]
            /\ last' = [Log("reactivate", 200) EXCEPT !.tag = "success",
                                                       !.from = sub.status]
     ELSE /\ last' = [Log("reactivate", 200) EXCEPT !.tag = "requiresPayment",
                                                     !.from = sub.status]
          /\ UNCHANGED sub

\* a limit that only counts seats above the ceiling
LimitDecisionAbove(s, employeeCount) ==
  IF Plans[s.planId].maxEmployees = Unlimited
    THEN [code |-> 200, tag |-> "next"]
  ELSE IF employeeCount > Plans[s.planId].maxEmployees
    THEN [code |-> 403, tag |-> "EMPLOYEE_LIMIT_REACHED"]
  ELSE [code |-> 200, tag |-> "next"]

(* ------------------------- enforceEmployeeLimit ------------------------ *)
\* runs after checkSubscription in the same request, on the subscription it
\* attached; employeeCount: what prisma.user.count answers
LimitDecision(s, employeeCount) ==
  IF Plans[s.planId].maxEmployees = Unlimited
    THEN [code |-> 200, tag |-> "next"]
  ELSE IF employeeCount >= Plans[s.planId].maxEmployees
    THEN [code |-> 403, tag |-> "EMPLOYEE_LIMIT_REACHED"]
  ELSE [code |-> 200, tag |-> "next"]

EnforceEmployeeLimit(employeeCount) ==
  /\ last = NoLog
  /\ sub # NoSub
  /\ CheckDecision(sub, now).code = 200
  /\ last' = [Log("seat-limit", LimitDecision(sub, employeeCount).code)
                EXCEPT !.tag = LimitDecision(sub, employeeCount).tag,
                       !.from = sub.status, !.planId = sub.planId]
  /\ UNCHANGED <<now, sub, payments, invoices, gwOrders, hist, pc, loc>>

(* ---------------------------- requireFeature --------------------------- *)
Features ==
  {"payroll", "advancedAnalytics", "customIntegrations", "prioritySupport",
   "dedicatedManager", "customWorkflows", "sla", "onPremise"}

\* the feature flags of the seeded plans that are true
PlanFeatures ==
  [p \in PlanIds |->
     CASE p = "starter" -> {}
       [] p = "professional" ->
            {"payroll", "advancedAnalytics", "customIntegrations",
             "prioritySupport"}
       [] OTHER -> Features]

\* a gate that lets every feature through
FeatureDecisionOpen(s, feature) == [code |-> 200, tag |-> "next"]

\* featureMap[feature] === false: a name the map does not hold passes
FeatureDecision(s, feature) ==
  IF feature \in Features /\ feature \notin PlanFeatures[s.planId]
    THEN [code |-> 403, tag |-> "FEATURE_NOT_AVAILABLE"]
    ELSE [code |-> 200, tag |-> "next"]

RequireFeature(feature) ==
  /\ last = NoLog
  /\ sub # NoSub
  /\ CheckDecision(sub, now).code = 200
  /\ last' = [Log("feature", FeatureDecision(sub, feature).code)
                EXCEPT !.tag = FeatureDecision(sub, feature).tag,
                       !.from = sub.status, !.planId = sub.planId]
  /\ UNCHANGED <<now, sub, payments, invoices, gwOrders, hist, pc, loc>>

(* ------------------------------ responses ------------------------------ *)
\* res.json(...): the answer leaves, and the next request is taken up
Respond ==
  /\ last # NoLog
  /\ last' = NoLog
  /\ UNCHANGED <<now, sub, payments, invoices, gwOrders, hist, pc, loc>>

(* ------------ lifecycle: requests handled one at a time ---------------- *)
\* the tenant registers on the default plan, is checked by the guard as the
\* deadlines pass, orders Professional (again when the period has run out),
\* pays and cancels
\* the clock moves to the day after a deadline
PayTick == \E d \in Deadlines : Tick(d + 1)

PayRegister == Register(NoPlan)

PayCancel == \E immediate \in BOOLEAN : Cancel(NoReason, immediate)

PayCreateOrder ==
  \E planId \in {"professional", "enterprise", NoPlan},
     billingCycle \in {NoCycle, "YEARLY"}, gatewayOk \in BOOLEAN :
    CreateOrder(planId, billingCycle, gatewayOk)

\* requests that fail validation, the signature check or the row lookup
PayVerifyRejected ==
  \E orderId \in Orders \cup {NoId}, paymentId \in PayIds \cup {NoId} :
    \E signature \in VerifySignatures(orderId, paymentId) :
      /\ IF Genuine(orderId, paymentId, signature)
           THEN payments[orderId] = NoPayment ELSE TRUE
      /\ VerifyPayment(orderId, paymentId, signature, NoPlan, NoCycle,
                       VerifyWrites)

PayVerifyPayment ==
  \E orderId \in Orders, paymentId \in PayIds,
     billingCycle \in {NoCycle, "YEARLY"}, done \in 0..VerifyWrites :
    /\ payments[orderId] # NoPayment
    /\ VerifyPayment(orderId, paymentId,
                     Hmac(KeySecret, <<orderId, paymentId>>),
                     NoPlan, billingCycle, done)

Next ==
  \/ PayTick
  \/ PayRegister
  \/ CheckSubscription
  \/ PayCancel
  \/ PayCreateOrder
  \/ PayVerifyRejected
  \/ PayVerifyPayment
  \/ Respond

Spec == Init /\ [][Next]_vars

(* ------------- gateway events: requests handled one at a time ----------- *)
\* the tenant registers, orders Professional once and pays while the gateway
\* delivers events; the clock stands still
RaceCreateOrder == gwOrders = {} /\ CreateOrder("professional", NoCycle, TRUE)

\* the gateway took payment PaymentOf(o) for order o
PaymentOf(o) == o

\* deliveries the handler refuses, or processes with the update committed
HookWebhook ==
  \E raw \in Bodies :
    \E signature \in WebhookSignatures(raw) :
      Webhook(raw, signature, TRUE)

\* deliveries whose update the database fails
HookWebhookDbError ==
  \E raw \in Bodies :
    /\ raw.spacing = "compact"
    /\ WebhookUpdates(raw, WebhookFind(payments, raw),
                      IF WebhookFind(payments, raw) = NoId THEN "NONE"
                      ELSE payments[WebhookFind(payments, raw)].status)
    /\ Webhook(raw, Hmac(WebhookSecret, raw), FALSE)

HookNext ==
  \/ PayRegister
  \/ RaceCreateOrder
  \/ PayVerifyPayment
  \/ HookWebhook
  \/ HookWebhookDbError
  \/ Respond

SpecHook == Init /\ [][HookNext]_vars

(* --------------- plan changes: requests handled one at a time ----------- *)
\* the tenant registers, pays for one order, looks at its subscription,
\* changes plan, cancels (at once or at the period end) and reactivates
PlanChangePlan ==
  \E planId \in PlanIds \cup {NoPlan},
     employeeCount \in {Plans["starter"].maxEmployees,
                        Plans["starter"].maxEmployees + 1,
                        Plans["professional"].maxEmployees + 1} :
    ChangePlan(planId, employeeCount)

\* orders for Starter or for Professional, a renewal after the first paid
PlanCreateOrder ==
  /\ \A o \in gwOrders : payments[o].status = "CAPTURED"
  /\ \E planId \in {"starter", "professional"} :
       CreateOrder(planId, NoCycle, TRUE)

\* the client confirms the payment; its request names no plan or Professional
PlanVerifyPayment ==
  \E orderId \in gwOrders, planId \in {NoPlan, "professional"} :
    VerifyPayment(orderId, PaymentOf(orderId),
                  Hmac(KeySecret, <<orderId, PaymentOf(orderId)>>),
                  planId, NoCycle, VerifyWrites)

\* the tenant registers without naming a plan, or for the Enterprise trial
PlanRegister == \E planSlug \in {NoPlan, "enterprise"} : Register(planSlug)

\* the reasons a tenant gives: none, or one of its own
CancelReasons == {NoReason, "too expensive"}

PlanCancel ==
  \E reason \in CancelReasons, immediate \in BOOLEAN :
    Cancel(reason, immediate)

\* the clock moves to a deadline or to the day after it
PlanTick == \E d \in Deadlines : Tick(d) \/ Tick(d + 1)

PlanSeatLimit ==
  \E employeeCount \in {Plans["starter"].maxEmployees - 1,
                        Plans["starter"].maxEmployees,
                        Plans["professional"].maxEmployees + 1} :
    EnforceEmployeeLimit(employeeCount)

PlanFeature == \E feature \in {"payroll", "sla", "reports"} : RequireFeature(feature)

PlanNext ==
  \/ PlanTick
  \/ PlanRegister
  \/ CheckSubscription
  \/ PlanSeatLimit
  \/ PlanFeature
  \/ GetCurrent
  \/ PlanChangePlan
  \/ PlanCancel
  \/ Reactivate
  \/ PlanCreateOrder
  \/ PlanVerifyPayment
  \/ Respond

SpecPlan == Init /\ [][PlanNext]_vars

(* ----------------- requests in flight, one await at a time -------------- *)
\* each request p runs its handler up to the next await; pc[p] is the await it
\* is at and loc[p] what the handler holds in its local variables
Step(p, at, to, l) ==
  /\ pc[p] = at
  /\ pc' = [pc EXCEPT ![p] = to]
  /\ loc' = [loc EXCEPT ![p] = l]

\* verify-payment up to payment.findUnique
VerifyFind(p, orderId, paymentId, signature, planId, billingCycle) ==
  LET genuine == Genuine(orderId, paymentId, signature)
  IN
  /\ pc[p] = "idle"
  /\ UNCHANGED <<now, sub, payments, invoices, gwOrders, last>>
  /\ IF orderId = NoId \/ paymentId = NoId \/ signature = NoSig
       THEN Step(p, "idle", "done", VerifyReject(400, genuine))
            /\ UNCHANGED hist
     ELSE IF ~VerifyRazorpaySignature(orderId, paymentId, signature)
       THEN Step(p, "idle", "done", VerifyReject(400, genuine))
            /\ UNCHANGED hist
     ELSE IF payments[orderId] = NoPayment
       THEN Step(p, "idle", "done", VerifyReject(404, genuine))
            /\ UNCHANGED hist
     ELSE /\ Verifies < MaxVerifies
          /\ hist' = [hist EXCEPT ![orderId].verify = @ + 1]
          /\ Step(p, "idle", "fetch",
                  VerifyRequest(orderId, paymentId, planId, billingCycle,
                                NoTime))

\* fetchPaymentDetails answers (or throws, which is ignored); new Date()
VerifyFetched(p) ==
  /\ pc[p] = "fetch"
  /\ Step(p, "fetch", "payment", [loc[p] EXCEPT !.t = now])
  /\ UNCHANGED <<now, sub, payments, invoices, gwOrders, hist, last>>

\* prisma.payment.update
VerifyUpdatePayment(p) ==
  LET r == loc[p]
  IN  /\ pc[p] = "payment"
      /\ UNCHANGED <<now, sub, invoices, gwOrders, hist, last>>
      /\ IF VerifyWriteThrows(r)
           THEN /\ Step(p, "payment", "done", VerifyLog(r, 500))
                /\ UNCHANGED payments
           ELSE /\ Step(p, "payment", "subscription", r)
                /\ payments' = CapturePayment(payments, r.order, r.pid, r.t)

\* prisma.subscription.update
VerifyUpdateSubscription(p) ==
  LET r == loc[p]
  IN  /\ pc[p] = "subscription"
      /\ Step(p, "subscription", "invoice", r)
      /\ sub' = ActivateSubscription(sub, r.planId, r.cycle, r.t)
      /\ hist' = [hist EXCEPT ![r.order].activations = @ + 1]
      /\ UNCHANGED <<now, payments, invoices, gwOrders, last>>

\* prisma.invoice.create
VerifyCreateInvoice(p) ==
  LET r == loc[p]
  IN  /\ pc[p] = "invoice"
      /\ Step(p, "invoice", "audit", r)
      /\ invoices' = CreateInvoice(invoices, r)
      /\ UNCHANGED <<now, sub, payments, gwOrders, hist, last>>

\* auditLog.create, subscription.findUnique, res.json: the status answered
\* is the one stored now
VerifyAnswer(p) ==
  LET r == loc[p]
  IN  /\ pc[p] = "audit"
      /\ Step(p, "audit", "done",
              [VerifyLog(r, 200) EXCEPT !.tag = sub.status])
      /\ UNCHANGED <<now, sub, payments, invoices, gwOrders, hist, last>>

\* webhook up to payment.findUnique
WebhookRead(p, raw, signature) ==
  LET ev == Stringify(raw)
      o == WebhookFind(payments, ev)
      was == IF o = NoId THEN "NONE" ELSE payments[o].status
  IN
  /\ pc[p] = "idle"
  /\ UNCHANGED <<now, sub, payments, invoices, gwOrders, last>>
  /\ IF ~WebhookAccepts(raw, signature)
       THEN /\ Step(p, "idle", "done",
                    WebhookLog(raw, signature, 400, NoId, "NONE"))
            /\ UNCHANGED hist
       ELSE /\ hist' = WebhookHist(hist, ev, o)
            /\ IF WebhookUpdates(ev, o, was)
                 THEN Step(p, "idle", "update",
                           [op |-> "webhook", ev |-> ev, order |-> o,
                            log |-> WebhookLog(raw, signature, 200, o, was)])
                 ELSE Step(p, "idle", "done",
                           WebhookLog(raw, signature, 200, o, was))

\* prisma.payment.update of the event, and the 200
WebhookWrite(p) ==
  LET r == loc[p]
  IN  /\ pc[p] = "update"
      /\ Step(p, "update", "done", r.log)
      /\ payments' = IF WebhookUpdateThrows(payments, r.ev, r.order)
                       THEN payments
                       ELSE WebhookUpdate(payments, r.ev, r.order, now)
      /\ UNCHANGED <<now, sub, invoices, gwOrders, hist, last>>

\* checkSubscription up to subscription.findUnique, and new Date()
CheckRead(p) ==
  LET d == CheckDecision(sub, now)
  IN  /\ pc[p] = "idle"
      /\ IF d.write = "NONE"
           THEN Step(p, "idle", "done", CheckLog(sub, d))
           ELSE Step(p, "idle", "repair",
                     [op |-> "guard", d |-> d, log |-> CheckLog(sub, d)])
      /\ UNCHANGED <<now, sub, payments, invoices, gwOrders, hist, last>>

\* prisma.subscription.update({ data: { status } }), and the 403
CheckWrite(p) ==
  /\ pc[p] = "repair"
  /\ Step(p, "repair", "done", loc[p].log)
  /\ sub' = RepairStatus(sub, loc[p].d)
  /\ UNCHANGED <<now, payments, invoices, gwOrders, hist, last>>

\* cancel up to subscription.findUnique, and new Date()
CancelRead(p, reason, immediate) ==
  /\ pc[p] = "idle"
  /\ UNCHANGED <<now, sub, payments, invoices, gwOrders, hist, last>>
  /\ IF CancelRejects(sub)
       THEN Step(p, "idle", "done",
                 CancelLog(sub, immediate, IF sub = NoSub THEN 404 ELSE 400))
       ELSE Step(p, "idle", "cancel",
                 [op |-> "cancel", s |-> sub, reason |-> reason,
                  immediate |-> immediate, t |-> now,
                  log |-> CancelLog(sub, immediate, 200)])

\* prisma.subscription.update of cancel, and the 200
CancelWrite(p) ==
  LET r == loc[p]
  IN  /\ pc[p] = "cancel"
      /\ Step(p, "cancel", "done", r.log)
      /\ sub' = CancelUpdate(sub, r.s, r.reason, r.immediate, r.t)
      /\ UNCHANGED <<now, payments, invoices, gwOrders, hist, last>>

\* the answer of request p leaves
Finish(p) ==
  /\ pc[p] = "done"
  /\ Step(p, "done", "idle", Idle)
  /\ UNCHANGED <<now, sub, payments, invoices, gwOrders, hist, last>>

(* ------------------- payments: requests in parallel -------------------- *)
\* the tenant registers, orders Professional once, and then verify-payment calls,
\* payment.captured deliveries, guard checks and immediate cancellations run
\* in parallel, each with a genuine signature
RaceVerify ==
  \E p \in Procs, orderId \in gwOrders :
    VerifyFind(p, orderId, PaymentOf(orderId),
               Hmac(KeySecret, <<orderId, PaymentOf(orderId)>>),
               NoPlan, NoCycle)

RaceVerifySteps ==
  \E p \in Procs :
    \/ VerifyFetched(p)
    \/ VerifyUpdatePayment(p)
    \/ VerifyUpdateSubscription(p)
    \/ VerifyCreateInvoice(p)
    \/ VerifyAnswer(p)

RaceWebhook ==
  \E p \in Procs, orderId \in gwOrders :
    LET raw == [event |-> "payment.captured", order_id |-> orderId,
                id |-> PaymentOf(orderId), spacing |-> "compact"]
    IN  WebhookRead(p, raw, Hmac(WebhookSecret, raw))

RaceWebhookWrite == \E p \in Procs : WebhookWrite(p)

RaceCheck == \E p \in Procs : CheckRead(p)

RaceCheckWrite == \E p \in Procs : CheckWrite(p)

RaceCancel == \E p \in Procs : CancelRead(p, NoReason, TRUE)

RaceCancelWrite == \E p \in Procs : CancelWrite(p)

RaceFinish == \E p \in Procs : Finish(p)

RaceNext ==
  \/ PayTick
  \/ PayRegister
  \/ RaceCreateOrder
  \/ Respond
  \/ RaceVerify
  \/ RaceVerifySteps
  \/ RaceWebhook
  \/ RaceWebhookWrite
  \/ RaceCheck
  \/ RaceCheckWrite
  \/ RaceCancel
  \/ RaceCancelWrite
  \/ RaceFinish

SpecRace == Init /\ [][RaceNext]_vars

(* ------------------------------- claims -------------------------------- *)
InvoicesIn(invs, o) == Cardinality({i \in 1..Len(invs) : invs[i].order = o})

InvoicesOf(o) == InvoicesIn(invoices, o)

Settled == \A p \in Procs : pc[p] \in {"idle", "done"}

\* a handler takes up a request of kind op and answers it in this step
Handles(op) == last = NoLog /\ last'.op = op

\* C1: replaying payment.captured for an order (one or more deliveries, no
\* verify-payment and no other event for it) leaves exactly one Invoice of
\* its payment and exactly one extension of the billing period
C1_ReplayOneInvoice ==
  \A o \in Orders :
    (/\ last = NoLog
     /\ payments[o] # NoPayment
     /\ hist[o].captured >= 1
     /\ hist[o].verify = 0
     /\ ~hist[o].other)
    => (InvoicesOf(o) = 1 /\ hist[o].activations = 1)

\* C2: when one verify-payment call and one payment.captured delivery for the
\* same order have run, in any interleaving, and the call answered 200, the
\* subscription was set ACTIVE with its period once and the order has exactly
\* one Invoice
C2_RaceOneActivation ==
  \A o \in Orders, p \in Procs :
    (/\ Settled
     /\ pc[p] = "done" /\ loc[p].op = "verify" /\ loc[p].code = 200
     /\ loc[p].order = o
     /\ hist[o].verify = 1 /\ hist[o].captured = 1 /\ ~hist[o].other)
    => (hist[o].activations = 1 /\ InvoicesOf(o) = 1)

\* both requests read the row as CREATED: each read came before the other's
\* write
C2_Witness ==
  \E o \in Orders, p, q \in Procs :
    /\ pc[p] = "done" /\ loc[p].op = "verify" /\ loc[p].code = 200
    /\ loc[p].order = o /\ loc[p].was = "CREATED"
    /\ pc[q] = "done" /\ loc[q].op = "webhook" /\ loc[q].code = 200
    /\ loc[q].order = o /\ loc[q].was = "CREATED"
    /\ hist[o].verify = 1 /\ hist[o].captured = 1 /\ ~hist[o].other
    /\ hist[o].activations = 1 /\ InvoicesOf(o) = 1

\* C3: a verify-payment call for an order whose Payment is already CAPTURED
\* changes neither the billing period nor the Invoices
C3_DuplicateCaptureNoOp ==
  [][(Handles("verify") /\ last'.was = "CAPTURED")
     => (/\ sub'.currentPeriodStart = sub.currentPeriodStart
         /\ sub'.currentPeriodEnd = sub.currentPeriodEnd
         /\ invoices' = invoices)]_vars

\* C4: each Payment has at most one Invoice, and there are never more
\* Invoices than Payments that were captured
C4_OneInvoicePerPayment ==
  /\ \A o \in Orders : InvoicesOf(o) <= 1
  /\ Len(invoices) <=
       Cardinality({o \in Orders : payments[o] # NoPayment
                                     /\ payments[o].paidAt # NoTime})

\* C5: the status of a Payment only moves created -> captured,
\* created -> failed and captured -> refunded
PaymentMoves ==
  {<<"CREATED", "CAPTURED">>, <<"CREATED", "FAILED">>,
   <<"CAPTURED", "REFUNDED">>}

C5_MonotonicPaymentStatus ==
  [][\A o \in Orders :
       (payments[o] # NoPayment /\ payments'[o].status # payments[o].status)
       => <<payments[o].status, payments'[o].status>> \in PaymentMoves]_vars

\* C6: no Payment is CAPTURED unless the subscription was set ACTIVE on its
\* behalf
C6_CaptureActivates ==
  \A o \in Orders :
    (payments[o] # NoPayment /\ payments[o].status = "CAPTURED")
    => hist[o].activations >= 1

\* C7: once the status is EXPIRED or CANCELLED, no step changes it except a
\* verified payment, which sets it ACTIVE
C7_TerminalStatusSticks ==
  [][(/\ sub # NoSub
      /\ sub.status \in {"EXPIRED", "CANCELLED"}
      /\ sub'.status # sub.status)
     => (/\ sub'.status = "ACTIVE"
         /\ \E o \in Orders :
              hist'[o].activations = hist[o].activations + 1)]_vars

\* C8: a webhook delivery whose signature header is not the HMAC of the body
\* received (wrong or absent) is answered 400 and changes no Payment or
\* Subscription row
C8_WebhookNeedsSignature ==
  [][(Handles("webhook") /\ ~last'.valid)
     => (last'.code = 400 /\ payments' = payments /\ sub' = sub)]_vars

\* C9: verify-payment with a signature that is not the gateway's for
\* (orderId, paymentId), or with a field missing, is answered 400 and changes
\* no Payment, Subscription or Invoice
C9_VerifyRejectsBadSignature ==
  [][(Handles("verify") /\ ~last'.valid)
     => (last'.code = 400 /\ UNCHANGED <<sub, payments, invoices>>)]_vars

C9_Witness ==
  /\ last.op = "verify" /\ ~last.valid /\ last.code = 400
  /\ \E o \in Orders : payments[o] # NoPayment /\ payments[o].status = "CREATED"

\* C10: verify-payment with a valid signature for a CREATED payment, from
\* TRIAL, PAST_DUE, EXPIRED, CANCELLED or SUSPENDED, sets the status ACTIVE,
\* the period to [now, now + one billing cycle], the Payment CAPTURED, and
\* adds exactly one Invoice
Revivable == {"TRIAL", "PAST_DUE", "EXPIRED", "CANCELLED", "SUSPENDED"}

C10_VerifyActivates ==
  [][(/\ Handles("verify") /\ last'.code = 200
      /\ payments[last'.order].status = "CREATED"
      /\ sub.status \in Revivable)
     => (/\ sub'.status = "ACTIVE"
         /\ sub'.currentPeriodStart = now
         /\ sub'.currentPeriodEnd =
              now + (IF last'.cycle = "YEARLY" THEN YearlyPeriod
                     ELSE MonthlyPeriod)
         /\ payments'[last'.order].status = "CAPTURED"
         /\ Len(invoices') = Len(invoices) + 1
         /\ InvoicesIn(invoices', last'.order)
              = InvoicesIn(invoices, last'.order) + 1)]_vars

C10_Witness ==
  /\ last.op = "verify" /\ last.code = 200 /\ last.was = "CREATED"
  /\ last.from = "SUSPENDED"
  /\ sub.status = "ACTIVE" /\ sub.currentPeriodStart = now
  /\ Len(invoices) = last.ninv + 1


\* C11: an accepted payment.captured delivery that finds a Payment not yet
\* CAPTURED, while the subscription is TRIAL or PAST_DUE, leaves the Payment
\* CAPTURED and the subscription ACTIVE
C11_WebhookCaptureActivates ==
  [][(/\ Handles("webhook") /\ last'.code = 200
      /\ last'.tag = "payment.captured"
      /\ last'.order # NoId /\ last'.was # "CAPTURED"
      /\ payments'[last'.order].status = "CAPTURED"
      /\ sub # NoSub /\ sub.status \in {"TRIAL", "PAST_DUE"})
     => sub'.status = "ACTIVE"]_vars

\* the status an event gives the Payment it is about
Implied(event) ==
  CASE event = "payment.captured" -> "CAPTURED"
    [] event = "payment.failed" -> "FAILED"
    [] event = "refund.created" -> "REFUNDED"
    [] OTHER -> "NONE"

\* C12: a delivery with the gateway's signature whose Payment row already has
\* the status the event implies changes no field of any Payment row and is
\* answered 200
C12_WebhookSameStatusNoOp ==
  [][\A raw \in Bodies :
       (/\ raw.spacing = "compact"
        /\ Webhook(raw, Hmac(WebhookSecret, raw), TRUE)
        /\ WebhookFind(payments, raw) # NoId
        /\ payments[WebhookFind(payments, raw)].status = Implied(raw.event))
       => (payments' = payments /\ last'.code = 200)]_vars

\* C13: a delivery whose signature header is the HMAC of the body received
\* is answered 200
C13_WebhookAlwaysAcks ==
  [][(Handles("webhook") /\ last'.valid) => last'.code = 200]_vars

\* C14: a guard check on a TRIAL subscription passes and writes nothing while
\* now <= trialEndDate; once now > trialEndDate it answers 403 TRIAL_EXPIRED
\* and the stored status is EXPIRED
C14_TrialGuard ==
  [][(Handles("guard") /\ sub # NoSub /\ sub.status = "TRIAL")
     => IF now <= sub.trialEndDate
          THEN last'.code = 200 /\ sub' = sub
          ELSE /\ last'.code = 403 /\ last'.tag = "TRIAL_EXPIRED"
               /\ sub'.status = "EXPIRED"]_vars

\* a check on the last day of the trial that passed
C14_Witness ==
  /\ last.op = "guard" /\ last.from = "TRIAL" /\ last.code = 200
  /\ sub.status = "TRIAL" /\ now = sub.trialEndDate

\* C15: a guard check on a PAST_DUE subscription stores SUSPENDED and answers
\* 403 SUBSCRIPTION_SUSPENDED when now > currentPeriodEnd + 3 days, and leaves
\* PAST_DUE stored when now is at most currentPeriodEnd + 3 days
C15_GraceBoundary ==
  [][(Handles("guard") /\ sub # NoSub /\ sub.status = "PAST_DUE")
     => IF now > sub.currentPeriodEnd + GracePeriod
          THEN /\ last'.code = 403 /\ last'.tag = "SUBSCRIPTION_SUSPENDED"
               /\ sub'.status = "SUSPENDED"
          ELSE sub'.status = "PAST_DUE"]_vars

\* a check exactly 3 days after the period end that left PAST_DUE
C15_Witness ==
  /\ last.op = "guard" /\ last.from = "PAST_DUE"
  /\ sub.status = "PAST_DUE" /\ now = sub.currentPeriodEnd + GracePeriod

\* C16: a guard check lets the request through only when the stored status
\* is then ACTIVE, or TRIAL with the trial not ended
C16_GuardPassesOnlyEntitled ==
  [][(Handles("guard") /\ last'.code = 200)
     => \/ sub'.status = "ACTIVE"
        \/ sub'.status = "TRIAL" /\ now <= sub'.trialEndDate]_vars

\* the repairs of the guard
Repairs ==
  {<<"TRIAL", "EXPIRED">>, <<"ACTIVE", "PAST_DUE">>,
   <<"PAST_DUE", "SUSPENDED">>}

\* C17: a denial of the guard changes no Payment and no Invoice, and of the
\* subscription at most the status, along one of the three repairs; a denial
\* for EXPIRED, CANCELLED or SUSPENDED, for the seat limit or for a feature
\* changes nothing
C17_DenialsOnlyRepair ==
  [][/\ (Handles("guard") /\ last'.code # 200)
        => /\ payments' = payments /\ invoices' = invoices
           /\ sub' = [sub EXCEPT !.status = sub'.status]
           /\ sub'.status # sub.status
                => <<sub.status, sub'.status>> \in Repairs
           /\ sub.status \in {"EXPIRED", "CANCELLED", "SUSPENDED"}
                => sub' = sub
     /\ ((Handles("seat-limit") \/ Handles("feature")) /\ last'.code # 200)
        => UNCHANGED <<sub, payments, invoices>>]_vars

\* a paid subscription whose period ran out was repaired to PAST_DUE
C17_Witness ==
  /\ last.op = "guard" /\ last.tag = "SUBSCRIPTION_PAST_DUE"
  /\ sub.status = "PAST_DUE" /\ sub.currentPeriodEnd < now
  /\ Len(invoices) >= 1

\* C18: /current on a subscription whose deadline has passed stores the
\* corrected status and reports it
C18_CurrentRepairs ==
  [][(/\ Handles("current") /\ sub # NoSub
      /\ CheckDecision(sub, now).write # "NONE")
     => (/\ sub'.status = CheckDecision(sub, now).write
         /\ last'.tag = CheckDecision(sub, now).write)]_vars

\* seat counts a tenant can have when it asks for another plan
SeatCounts ==
  {Plans[p].maxEmployees + k : p \in {"starter", "professional"},
                               k \in {0, 1}}

\* C19: /change-plan to an active plan with a finite ceiling is answered 400
\* "Cannot downgrade" and leaves the subscription as it was whenever the
\* tenant's seat count is above the ceiling; with the count at or below the
\* ceiling, or with an unlimited ceiling, it is not refused for the seats
C19_ChangePlanSeatLimit ==
  [][\A planId \in PlanIds, employeeCount \in SeatCounts :
       (ChangePlan(planId, employeeCount) /\ sub # NoSub)
       => IF /\ Plans[planId].maxEmployees # Unlimited
             /\ employeeCount > Plans[planId].maxEmployees
            THEN /\ last'.code = 400 /\ last'.tag = "Cannot downgrade"
                 /\ sub' = sub
            ELSE /\ last'.code = 200
                 /\ last'.tag \in {"applied", "requiresPayment", "scheduled"}
     ]_vars

\* a paying Professional tenant with more seats than Starter allows asked for
\* Starter and was refused
C19_Witness ==
  /\ last.op = "change-plan" /\ last.tag = "Cannot downgrade"
  /\ last.planId = "starter" /\ last.from = "ACTIVE"
  /\ sub.planId = "professional" /\ sub.metadata = NoMeta

\* C20: /change-plan to a dearer plan on a subscription that is not in trial
\* answers requiresPayment and leaves the subscription as it was, and the plan
\* of such a subscription changes only in a verify-payment that answers 200
\* for a Payment whose order was created for the new plan
C20_UpgradeNeedsVerifiedPayment ==
  [][/\ (/\ Handles("change-plan") /\ last'.code = 200
         /\ last'.from # "TRIAL"
         /\ Plans[last'.planId].monthlyPrice > Plans[sub.planId].monthlyPrice)
        => (last'.tag = "requiresPayment" /\ sub' = sub)
     /\ (/\ sub # NoSub /\ sub.status # "TRIAL"
         /\ sub'.planId # sub.planId)
        => (/\ Handles("verify") /\ last'.code = 200
            /\ payments[last'.order].description[1] = sub'.planId)
    ]_vars

\* C21: /change-plan to a plan that is not dearer, on a subscription not in
\* trial, leaves planId as it was and records the target and the period end
\* in metadata; and a renewal (a verify-payment that names no plan and answers
\* 200) at or after the effective date of a pending change puts the
\* subscription on the pending plan
C21_DowngradeAppliedAtRollover ==
  [][/\ (Handles("change-plan") /\ last'.tag = "scheduled")
        => /\ sub'.planId = sub.planId
           /\ sub'.metadata = [pendingPlanChange |-> last'.planId,
                               changeEffectiveDate |-> sub.currentPeriodEnd]
     /\ \A o \in Orders :
          (/\ VerifyPayment(o, PaymentOf(o),
                            Hmac(KeySecret, <<o, PaymentOf(o)>>),
                            NoPlan, NoCycle, VerifyWrites)
           /\ last'.code = 200
           /\ sub.metadata.pendingPlanChange \notin {NoPlan, sub.planId}
           /\ sub.metadata.changeEffectiveDate # NoTime
           /\ now >= sub.metadata.changeEffectiveDate)
          => sub'.planId = sub.metadata.pendingPlanChange
    ]_vars

\* the statuses /cancel accepts
NonTerminal == Statuses \ {"CANCELLED", "EXPIRED"}

\* C22: /cancel with immediate = true, or on a TRIAL subscription, from any
\* status other than CANCELLED and EXPIRED answers 200 and sets status
\* CANCELLED, cancelledAt = now, cancelReason (the reason given, or the default
\* text) and autoRenew = false, and nothing else
C22_CancelAtOnce ==
  [][\A reason \in CancelReasons, immediate \in BOOLEAN :
       (/\ Cancel(reason, immediate)
        /\ sub # NoSub /\ sub.status \in NonTerminal
        /\ (immediate \/ sub.status = "TRIAL"))
       => (/\ last'.code = 200
           /\ sub' = [sub EXCEPT
                        !.status = "CANCELLED", !.cancelledAt = now,
                        !.cancelReason = IF reason = NoReason
                                           THEN DefaultReason ELSE reason,
                        !.autoRenew = FALSE])]_vars

\* a paying tenant cancelled at once, giving its reason
C22_Witness ==
  /\ last.op = "cancel" /\ last.code = 200 /\ last.from = "ACTIVE"
  /\ ~last.flag
  /\ sub.status = "CANCELLED" /\ sub.cancelReason = "too expensive"
  /\ sub.cancelledAt = now /\ ~sub.autoRenew

\* C23: /cancel with immediate = false on a subscription that is neither in
\* trial nor CANCELLED nor EXPIRED answers 200, sets cancelsAtPeriodEnd and
\* leaves status, planId, the period, the billing cycle and the trial end as
\* they were
C23_CancelAtPeriodEnd ==
  [][\A reason \in CancelReasons :
       (/\ Cancel(reason, FALSE)
        /\ sub # NoSub /\ sub.status \in NonTerminal \ {"TRIAL"})
       => (/\ last'.code = 200
           /\ sub'.cancelsAtPeriodEnd
           /\ sub'.status = sub.status /\ sub'.planId = sub.planId
           /\ sub'.currentPeriodStart = sub.currentPeriodStart
           /\ sub'.currentPeriodEnd = sub.currentPeriodEnd
           /\ sub'.billingCycle = sub.billingCycle
           /\ sub'.trialEndDate = sub.trialEndDate
           /\ sub'.metadata = sub.metadata)]_vars

\* a paying tenant asked to stop at the period end and is still ACTIVE
C23_Witness ==
  /\ last.op = "cancel" /\ last.code = 200 /\ last.flag
  /\ last.from = "ACTIVE"
  /\ sub.status = "ACTIVE" /\ sub.cancelsAtPeriodEnd
  /\ now < sub.currentPeriodEnd

\* C24: a guard check on a subscription with cancelsAtPeriodEnd set, made
\* after currentPeriodEnd has passed, leaves the stored status CANCELLED
C24_LazyCancellation ==
  [][(/\ Handles("guard")
      /\ sub # NoSub /\ sub.cancelsAtPeriodEnd
      /\ sub.currentPeriodEnd # NoTime /\ now > sub.currentPeriodEnd)
     => sub'.status = "CANCELLED"]_vars

\* C25: /reactivate on a tenant's subscription clears cancelsAtPeriodEnd,
\* cancelledAt and cancelReason and sets autoRenew exactly when
\* cancelsAtPeriodEnd is set and now < currentPeriodEnd; otherwise it answers
\* requiresPayment and leaves the subscription as it was
C25_Reactivate ==
  [][(Handles("reactivate") /\ sub # NoSub)
     => IF /\ sub.cancelsAtPeriodEnd /\ sub.currentPeriodEnd # NoTime
           /\ now < sub.currentPeriodEnd
          THEN /\ last'.tag = "success"
               /\ sub' = [sub EXCEPT !.cancelsAtPeriodEnd = FALSE,
                                     !.cancelledAt = NoTime,
                                     !.cancelReason = NoReason,
                                     !.autoRenew = TRUE]
          ELSE last'.tag = "requiresPayment" /\ sub' = sub]_vars

\* a cancellation at the period end was taken back in time
C25_Witness ==
  /\ last.op = "reactivate" /\ last.tag = "success" /\ last.from = "ACTIVE"
  /\ ~sub.cancelsAtPeriodEnd /\ sub.cancelledAt = NoTime /\ sub.autoRenew
  /\ sub.cancelReason = NoReason /\ now < sub.currentPeriodEnd

\* C26: /register creates the tenant's Subscription, in status TRIAL with
\* trialEndDate = now + the trial days of the plan chosen; no other request
\* creates a Subscription, and the tenant's Subscription is never removed or
\* created again
C26_RegisterCreatesTrial ==
  [][/\ Handles("register")
        => /\ sub = NoSub /\ sub' # NoSub
           /\ sub'.status = "TRIAL" /\ sub'.planId = last'.planId
           /\ sub'.trialEndDate = now + Plans[last'.planId].trialDays
     /\ (sub = NoSub /\ sub' # NoSub) => Handles("register")
     /\ sub # NoSub => (sub' # NoSub /\ ~Handles("register"))]_vars

\* a tenant registered for Enterprise and has its 30 days
C26_Witness ==
  /\ last.op = "register" /\ last.planId = "enterprise"
  /\ sub.status = "TRIAL"
  /\ sub.trialEndDate = now + Plans["enterprise"].trialDays
  /\ Plans["enterprise"].trialDays # Plans["starter"].trialDays

\* C27: /create-order for a custom plan, or by a tenant without a subscription,
\* is refused; and whenever /create-order does not answer 200 no Payment row
\* is created and every order the gateway holds has its Payment row
C27_CreateOrderRejections ==
  [][/\ \A gatewayOk \in BOOLEAN :
          CreateOrder("enterprise", NoCycle, gatewayOk) => last'.code = 400
     /\ (Handles("create-order") /\ sub = NoSub) => last'.code # 200
     /\ (Handles("create-order") /\ last'.code # 200)
        => /\ payments' = payments
           /\ \A o \in gwOrders' : payments'[o] # NoPayment]_vars

\* C28: an order that /create-order creates has amount, in paise, 100 times
\* the plan's monthly price for MONTHLY and 100 times its yearly price for
\* YEARLY, a positive integer; Professional by the month is 149900
C28_OrderAmount ==
  [][(Handles("create-order") /\ last'.code = 200)
     => LET amount == payments'[last'.order].amount
            plan == Plans[last'.planId]
        IN  /\ amount = 100 * (IF last'.cycle = "YEARLY"
                                 THEN plan.yearlyPrice ELSE plan.monthlyPrice)
            /\ amount \in Nat \ {0}
            /\ (last'.planId = "professional" /\ last'.cycle = "MONTHLY")
                 => amount = 149900]_vars

\* Professional ordered by the year
C28_Witness ==
  /\ last.op = "create-order" /\ last.code = 200
  /\ last.planId = "professional" /\ last.cycle = "YEARLY"
  /\ payments[last.order].amount = 1499000

\* C29: every Invoice has, in paise, tax = 18 * subtotal / 100 rounded to the
\* nearest paisa (halves up) and total = subtotal + tax; a subtotal of 1499
\* rupees has tax 269.82 and total 1768.82
C29_InvoiceTax ==
  \A i \in 1..Len(invoices) :
    LET inv == invoices[i]
    IN  /\ 100 * inv.tax - GstPercent * inv.subtotal \in -49..50
        /\ inv.total = inv.subtotal + inv.tax
        /\ inv.subtotal = 149900 => (inv.tax = 26982 /\ inv.total = 176882)

\* Professional was paid for by the month and invoiced
C29_Witness ==
  \E i \in 1..Len(invoices) :
    /\ invoices[i].subtotal = 149900
    /\ payments[invoices[i].order].status = "CAPTURED"

\* the seat counts of a tenant that asks to add a seat
GuardSeatCounts ==
  {Plans["starter"].maxEmployees - 1, Plans["starter"].maxEmployees,
   Plans["professional"].maxEmployees + 1}

\* C30: enforceEmployeeLimit answers 403 EMPLOYEE_LIMIT_REACHED exactly when
\* the plan's maxEmployees is not -1 and the tenant's count of active seats is
\* at least maxEmployees; otherwise, and always with -1, it lets the request
\* through
C30_SeatLimit ==
  [][\A employeeCount \in GuardSeatCounts :
       EnforceEmployeeLimit(employeeCount)
       => IF /\ Plans[sub.planId].maxEmployees # Unlimited
             /\ employeeCount >= Plans[sub.planId].maxEmployees
            THEN last'.code = 403 /\ last'.tag = "EMPLOYEE_LIMIT_REACHED"
            ELSE last'.code = 200]_vars

\* a Starter tenant at its ceiling was refused another seat
C30_Witness ==
  /\ last.op = "seat-limit" /\ last.tag = "EMPLOYEE_LIMIT_REACHED"
  /\ last.planId = "starter" /\ sub.planId = "starter"

\* the features a gated route can name
GatedFeatures == {"payroll", "sla"}

\* C31: requireFeature(feature) answers 403 FEATURE_NOT_AVAILABLE when the
\* plan's flag for the feature is false and lets the request through when it
\* is true
C31_FeatureGate ==
  [][\A feature \in GatedFeatures :
       RequireFeature(feature)
       => IF feature \in PlanFeatures[sub.planId]
            THEN last'.code = 200
            ELSE last'.code = 403 /\ last'.tag = "FEATURE_NOT_AVAILABLE"]_vars

\* a Professional tenant was refused a feature its plan does not have
C31_Witness ==
  /\ last.op = "feature" /\ last.tag = "FEATURE_NOT_AVAILABLE"
  /\ last.planId = "professional" /\ sub.planId = "professional"

\* C32: a guard check on an ACTIVE subscription passes and writes nothing
\* while now <= currentPeriodEnd; once now > currentPeriodEnd it stores
\* PAST_DUE and answers 403 SUBSCRIPTION_PAST_DUE
C32_ActiveGuard ==
  [][(Handles("guard") /\ sub # NoSub /\ sub.status = "ACTIVE")
     => IF now <= sub.currentPeriodEnd
          THEN last'.code = 200 /\ sub' = sub
          ELSE /\ last'.code = 403 /\ last'.tag = "SUBSCRIPTION_PAST_DUE"
               /\ sub'.status = "PAST_DUE"]_vars

\* a check at the instant the period ends that passed
C32_Witness ==
  /\ last.op = "guard" /\ last.from = "ACTIVE" /\ last.code = 200
  /\ sub.status = "ACTIVE" /\ now = sub.currentPeriodEnd

\* C33: when a guard check and a verify-payment call that answered 200 have
\* both run at the same clock value, in any interleaving, the stored status
\* is ACTIVE
C33_GuardRaceHarmless ==
  \A p, q \in Procs :
    (/\ pc[p] = "done" /\ loc[p].op = "verify" /\ loc[p].code = 200
     /\ pc[q] = "done" /\ loc[q].op = "guard"
     /\ loc[q].at = loc[p].at /\ now = loc[p].at)
    => sub.status = "ACTIVE"

\* C34: after a verify-payment that answers 200 the subscription is on the
\* plan and the billing cycle the order was created for, with a period of
\* that cycle's length
C34_VerifyActivatesWhatWasPaid ==
  [][(Handles("verify") /\ last'.code = 200)
     => LET paid == payments[last'.order].description
        IN  /\ sub'.planId = paid[1]
            /\ sub'.billingCycle = paid[2]
            /\ sub'.currentPeriodEnd = now + CycleLength(paid[2])]_vars

\* C35: whenever /reactivate answers success the stored status afterwards is
\* not CANCELLED
C35_ReactivatedNotCancelled ==
  [][(Handles("reactivate") /\ last'.tag = "success")
     => sub'.status # "CANCELLED"]_vars

\* C36: the status and cancelsAtPeriodEnd in the answer of a /cancel that
\* succeeds are the stored ones after the call
C36_CancelAnswerMatchesRow ==
  [][(Handles("cancel") /\ last'.code = 200)
     => (/\ last'.tag = sub'.status
         /\ last'.flag = sub'.cancelsAtPeriodEnd)]_vars

\* C37: /cancel on a subscription whose status is CANCELLED or EXPIRED is
\* answered 400 and leaves the subscription as it was
C37_CancelTerminalRejected ==
  [][(/\ Handles("cancel") /\ sub # NoSub
      /\ sub.status \in {"CANCELLED", "EXPIRED"})
     => (last'.code = 400 /\ sub' = sub)]_vars

\* a tenant whose trial expired asked to cancel and was refused
C37_Witness ==
  /\ last.op = "cancel" /\ last.code = 400 /\ last.from = "EXPIRED"
  /\ sub.status = "EXPIRED" /\ sub.cancelledAt = NoTime /\ sub.autoRenew

\* C38: at a fixed clock value, the status a guard check leaves stored is the
\* status a second guard check would leave stored
C38_RepairIdempotent ==
  [][Handles("guard")
     => RepairStatus(sub', CheckDecision(sub', now)).status = sub'.status]_vars

\* C39: a subscription in status ACTIVE has currentPeriodStart and
\* currentPeriodEnd set, the start before the end, and a subscription in
\* status TRIAL has trialEndDate set
C39_PeriodsSet ==
  sub # NoSub
  => /\ sub.status = "ACTIVE"
          => /\ sub.currentPeriodStart # NoTime
             /\ sub.currentPeriodEnd # NoTime
             /\ sub.currentPeriodStart < sub.currentPeriodEnd
     /\ sub.status = "TRIAL" => sub.trialEndDate # NoTime

\* a subscription activated from the trial, inside its first period
C39_Witness ==
  /\ sub # NoSub /\ sub.status = "ACTIVE"
  /\ sub.currentPeriodStart < sub.currentPeriodEnd
  /\ Len(invoices) = 1 /\ now < sub.currentPeriodEnd

\* C40: no subscription is ACTIVE with cancelledAt set while
\* cancelsAtPeriodEnd is false
C40_NoStaleCancellation ==
  (sub # NoSub /\ sub.status = "ACTIVE" /\ ~sub.cancelsAtPeriodEnd)
  => sub.cancelledAt = NoTime
====
